---- MODULE Spec2Model ----
(***************************************************************************)
(* A model of saga/utils/pty_shell_factory.py: the PTYShellFactory         *)
(* registry of master connections (initialize), the prompt dialog          *)
(* (_initialize_pty), the slave operations (run_shell, run_copy_to,        *)
(* run_copy_from), the profile builder (_create_master_entry) and the      *)
(* error translator (_translate_exception).                                *)
(*                                                                         *)
(* Strings the code formats or searches are sequences of atomic pieces     *)
(* (messages: sequences of characters), so that formatting, slicing and    *)
(* substring tests are computed, not assumed.                              *)
(***************************************************************************)
EXTENDS Integers, Sequences, FiniteSets, TLC

VARIABLES
    registry,   \* self.registry: host_str -> user -> type -> info
    ptys,       \* every PTYProcess object created so far, by creation number
    returned,   \* the master entries initialize has returned to callers
    pc,         \* per thread: the line of the factory it is about to execute
    op,         \* per thread: the factory method it is executing
    info,       \* per thread: the local variable info
    cur,        \* per thread: the PTYProcess it holds (info['pty'], sh_slave, cp_slave)
    res,        \* what the step just taken returned or raised to its caller, if it ended a call
    d           \* the dialog of one PTY, followed find by find (SpecDialog)

vars == <<registry, ptys, returned, pc, op, info, cur, res, d>>

(***************************************************************************)
(* Bounds of the model.                                                    *)
(***************************************************************************)
MaxPty == 2        \* PTYProcess objects created in one run
MaxFinds == 3      \* find() calls in one dialog

Threads == {"t1", "t2"}

\* Python's None, where the code compares it with an index or holds no PTYProcess
None == -1

(***************************************************************************)
(* Python dicts as functions with a finite domain.                         *)
(***************************************************************************)
EmptyDict == [x \in {} |-> x]

DictSet(dict, k, v) == [x \in (DOMAIN dict) \cup {k} |-> IF x = k THEN v ELSE dict[x]]

Has(dict, k) == k \in DOMAIN dict

(***************************************************************************)
(* Sequences of pieces: str.find, slicing, substring test, lower().        *)
(***************************************************************************)
\* string.find (s, c, from): the first index >= from (0-based) of piece c, or -1
StrFind(s, c, from) ==
    LET hits == {i \in 0..(Len(s) - 1) : i >= from /\ s[i + 1] = c}
    IN  IF hits = {} THEN -1 ELSE CHOOSE i \in hits : \A j \in hits : i <= j

\* s[a:b] with 0 <= a, b (Python slice, 0-based, b excluded)
Slice(s, a, b) == IF b <= a THEN <<>> ELSE SubSeq(s, a + 1, IF b > Len(s) THEN Len(s) ELSE b)

\* sub in s
Contains(s, sub) ==
    \E i \in 0..(Len(s) - Len(sub)) : SubSeq(s, i + 1, i + Len(sub)) = sub

UpperCase ==
    <<"A", "B", "C", "D", "E", "F", "G", "H", "I", "J", "K", "L", "M",
      "N", "O", "P", "Q", "R", "S", "T", "U", "V", "W", "X", "Y", "Z">>
LowerCase ==
    <<"a", "b", "c", "d", "e", "f", "g", "h", "i", "j", "k", "l", "m",
      "n", "o", "p", "q", "r", "s", "t", "u", "v", "w", "x", "y", "z">>

LowerMap ==
    [c \in {UpperCase[i] : i \in DOMAIN UpperCase} |->
        LowerCase[CHOOSE i \in DOMAIN UpperCase : UpperCase[i] = c]]

\* str.lower () on a sequence of characters
Lower(s) == [i \in 1..Len(s) |-> IF s[i] \in DOMAIN LowerMap THEN LowerMap[s[i]] ELSE s[i]]

(***************************************************************************)
(* Exceptions: a class and a message (a sequence of characters).           *)
(***************************************************************************)
NoExc == [cls |-> "none", msg |-> <<>>]

Exc(cls, msg) == [cls |-> cls, msg |-> msg]

\* the classes derived from saga.SagaException
SagaClasses ==
    {"NoSuccess", "AuthenticationFailed", "AuthorizationFailed", "PermissionDenied",
     "BadParameter", "IncorrectState"}

KwAuth == <<"a", "u", "t", "h">>
KwPass == <<"p", "a", "s", "s">>
KwExchange == <<"s", "s", "h", "_", "e", "x", "c", "h", "a", "n", "g", "e", "_",
                "i", "d", "e", "n", "t", "i", "f", "i", "c", "a", "t", "i", "o", "n">>
KwDenied == <<"d", "e", "n", "i", "e", "d">>
KwShared == <<"s", "h", "a", "r", "e", "d", " ", "c", "o", "n", "n", "e", "c", "t", "i", "o", "n">>
KwPtyAlloc == <<"p", "t", "y", " ", "a", "l", "l", "o", "c", "a", "t", "i", "o", "n">>

PfxTooFrequent == <<"too frequent login attempts, or sshd misconfiguration: ">>
PfxResources == <<"Insufficient system resources: ">>

\* TranslateException with 'pass' tested before 'auth'
TranslatePassFirst(e) ==
    IF e.cls \notin SagaClasses THEN e
    ELSE IF e.cls # "NoSuccess" THEN e
    ELSE LET cmsg == e.msg
             lmsg == Lower(cmsg)
         IN  IF Contains(lmsg, KwPass) THEN Exc("AuthenticationFailed", cmsg)
             ELSE IF Contains(lmsg, KwAuth) THEN Exc("AuthorizationFailed", cmsg)
             ELSE IF Contains(lmsg, KwExchange)
                  THEN Exc("AuthenticationFailed", PfxTooFrequent \o cmsg)
             ELSE IF Contains(lmsg, KwDenied) THEN Exc("PermissionDenied", cmsg)
             ELSE IF Contains(lmsg, KwShared) THEN Exc("NoSuccess", PfxResources \o cmsg)
             ELSE IF Contains(lmsg, KwPtyAlloc) THEN Exc("NoSuccess", PfxResources \o cmsg)
             ELSE e

\* _translate_exception (e)
TranslateException(e) ==
    IF e.cls \notin SagaClasses THEN e
    ELSE IF e.cls # "NoSuccess" THEN e
    ELSE LET cmsg == e.msg
             lmsg == Lower(cmsg)
         IN  IF Contains(lmsg, KwAuth) THEN Exc("AuthorizationFailed", cmsg)
             ELSE IF Contains(lmsg, KwPass) THEN Exc("AuthenticationFailed", cmsg)
             ELSE IF Contains(lmsg, KwExchange)
                  THEN Exc("AuthenticationFailed", PfxTooFrequent \o cmsg)
             ELSE IF Contains(lmsg, KwDenied) THEN Exc("PermissionDenied", cmsg)
             ELSE IF Contains(lmsg, KwShared) THEN Exc("NoSuccess", PfxResources \o cmsg)
             ELSE IF Contains(lmsg, KwPtyAlloc) THEN Exc("NoSuccess", PfxResources \o cmsg)
             ELSE e

(***************************************************************************)
(* PTYProcess.find: what one call can give the dialog.  A result is the    *)
(* index of the matched pattern (None: no match within _PTY_TIMEOUT), the  *)
(* matched text, or an exception raised by the PTY layer.                  *)
(***************************************************************************)
Quote == "'"

CertK1 == <<"k1">>     \* a certificate the session has a passphrase for
CertK2 == <<"k2">>     \* a certificate the session has no passphrase for

FrNone == [n |-> None, match |-> <<>>, exc |-> NoExc]
FrPassword == [n |-> 0, match |-> <<"Password:">>, exc |-> NoExc]
FrPassphrase(c) ==
    [n |-> 1, match |-> <<"Enter passphrase for key ", Quote>> \o c \o <<Quote, ":">>,
     exc |-> NoExc]
FrHostKey == [n |-> 2, match |-> <<"want to continue connecting">>, exc |-> NoExc]
FrShell == [n |-> 3, match |-> <<"$">>, exc |-> NoExc]
FrRaise(m) == [n |-> None, match |-> <<>>, exc |-> Exc("NoSuccess", m)]

MsgDenied == <<"P", "e", "r", "m", "i", "s", "s", "i", "o", "n", " ", "d", "e", "n", "i", "e", "d">>
MsgEof == <<"E", "O", "F">>

\* index 1 with a text that has no quote, one quote, three quotes
FrPassphraseText(m) == [n |-> 1, match |-> m, exc |-> NoExc]
TextNoQuote == <<"Enter passphrase for key ">>
TextOneQuote == <<"Enter passphrase for key ", Quote>> \o CertK1
TextThreeQuotes ==
    <<"Enter passphrase for key ", Quote>> \o CertK1 \o <<Quote, "x", Quote, ":">>

FindResults ==
    {FrNone, FrPassword, FrPassphrase(CertK1), FrPassphrase(CertK2), FrHostKey, FrShell,
     FrRaise(MsgDenied), FrRaise(MsgEof),
     FrPassphraseText(TextNoQuote), FrPassphraseText(TextOneQuote),
     FrPassphraseText(TextThreeQuotes)}

\* find() has nothing to give yet: the dialog is blocked in it
FrBlocked == [n |-> -2, match |-> <<>>, exc |-> NoExc]

(***************************************************************************)
(* _initialize_pty: the prompt loop, one step per if-block of the loop.    *)
(* A dialog state holds the line it is at, n and match, the PTY's log of   *)
(* find results and writes, and how the routine ended.                     *)
(***************************************************************************)
EvFind(n) == [ev |-> "find", n |-> n, data |-> <<>>]
EvWrite(data) == [ev |-> "write", n |-> None, data |-> data]

DlgStart ==
    [pc |-> "l207", n |-> None, match |-> <<>>, log |-> <<>>, out |-> "run", exc |-> NoExc]

\* except Exception as e : raise self._translate_exception (e)
DlgRaise(s, e) == [s EXCEPT !.pc = "done", !.out = "raise", !.exc = TranslateException(e)]

\* n, match = pty_shell.find (prompt_patterns, _PTY_TIMEOUT), then go to line nxt
DlgFind(s, f, nxt) ==
    IF f = FrBlocked THEN [s EXCEPT !.pc = "blocked"]
    ELSE IF f.exc # NoExc THEN DlgRaise(s, f.exc)
    ELSE [s EXCEPT !.n = f.n, !.match = f.match, !.log = Append(@, EvFind(f.n)), !.pc = nxt]

\* pty_shell.write (data)
DlgWrite(s, data) == [s EXCEPT !.log = Append(@, EvWrite(data))]

\* if n == None : find again
DlgIfNone(s, f) ==
    IF s.n = None THEN DlgFind(s, f, "l224") ELSE [s EXCEPT !.pc = "l224"]

\* DlgIfPassword without the test of the prompt: the password is written at any n
DlgIfPasswordAnyPrompt(s, f, shell_pass) ==
    IF shell_pass = ""
    THEN IF s.n = 0
         THEN DlgRaise(s, Exc("AuthenticationFailed",
                              <<"prompted for unknown password (">> \o s.match \o <<")">>))
         ELSE [s EXCEPT !.pc = "l235"]
    ELSE DlgFind(DlgWrite(s, <<shell_pass, "\n">>), f, "l235")

\* DlgIfPassword without the test of the password: an empty password is written
DlgIfPasswordBlind(s, f, shell_pass) ==
    IF s.n = 0
    THEN DlgFind(DlgWrite(s, <<shell_pass, "\n">>), f, "l235")
    ELSE [s EXCEPT !.pc = "l235"]

\* if n == 0 : the password prompt
DlgIfPassword(s, f, shell_pass) ==
    IF s.n = 0
    THEN IF shell_pass = ""
         THEN DlgRaise(s, Exc("AuthenticationFailed",
                              <<"prompted for unknown password (">> \o s.match \o <<")">>))
         ELSE DlgFind(DlgWrite(s, <<shell_pass, "\n">>), f, "l235")
    ELSE [s EXCEPT !.pc = "l235"]

\* DlgPassphrase with the name taken up to the last quote of the text, not the second
DlgPassphraseGreedy(s, f, cert_pass) ==
    LET start == StrFind(s.match, Quote, 0)
        quotes == {i \in 0..(Len(s.match) - 1) : s.match[i + 1] = Quote /\ i > start}
        end == IF quotes = {} THEN -1 ELSE CHOOSE i \in quotes : \A j \in quotes : j <= i
        cert == Slice(s.match, start + 1, end)
    IN  IF start = -1 \/ end = -1
        THEN DlgRaise(s, Exc("AuthenticationFailed",
                             <<"could not extract cert name (">> \o s.match \o <<")">>))
        ELSE IF ~Has(cert_pass, cert)
        THEN DlgRaise(s, Exc("AuthenticationFailed",
                             <<"prompted for unknown certificate password (">> \o cert \o <<")">>))
        ELSE DlgFind(DlgWrite(s, <<cert_pass[cert], "\n">>), f, "l216")

\* if n == 1 : the passphrase prompt
DlgPassphrase(s, f, cert_pass) ==
    LET start == StrFind(s.match, Quote, 0)
        end == StrFind(s.match, Quote, start + 1)
        cert == Slice(s.match, start + 1, end)
    IN  IF start = -1 \/ end = -1
        THEN DlgRaise(s, Exc("AuthenticationFailed",
                             <<"could not extract cert name (">> \o s.match \o <<")">>))
        ELSE IF ~Has(cert_pass, cert)
        THEN DlgRaise(s, Exc("AuthenticationFailed",
                             <<"prompted for unknown certificate password (">> \o cert \o <<")">>))
        ELSE DlgFind(DlgWrite(s, <<cert_pass[cert], "\n">>), f, "l216")

\* DlgIfChain leaving the loop on anything that is not a passphrase or a host key prompt
DlgIfChainBreakEarly(s, f, cert_pass) ==
    IF s.n = 1 THEN DlgPassphrase(s, f, cert_pass)
    ELSE IF s.n = 2 THEN DlgFind(DlgWrite(s, <<"yes", "\n">>), f, "l216")
    ELSE [s EXCEPT !.pc = "done", !.out = "ok"]

\* if n == 1 : ... elif n == 2 : ... elif n == 3 : break
DlgIfChain(s, f, cert_pass) ==
    IF s.n = 1 THEN DlgPassphrase(s, f, cert_pass)
    ELSE IF s.n = 2 THEN DlgFind(DlgWrite(s, <<"yes", "\n">>), f, "l216")
    ELSE IF s.n = 3 THEN [s EXCEPT !.pc = "done", !.out = "ok"]
    ELSE [s EXCEPT !.pc = "l216"]

\* one step of _initialize_pty from state s; f is what find() gives if the step calls it
DlgStep(s, f, shell_pass, cert_pass) ==
    CASE s.pc = "l207" -> DlgFind(s, f, "l216")
      [] s.pc = "l216" -> DlgIfNone(s, f)
      [] s.pc = "l224" -> DlgIfPassword(s, f, shell_pass)
      [] s.pc = "l235" -> DlgIfChain(s, f, cert_pass)
      [] OTHER -> s

\* the step at s calls find()
DlgNeedsFind(s, shell_pass, cert_pass) ==
    DlgStep(s, FrBlocked, shell_pass, cert_pass).pc = "blocked"

\* _initialize_pty run on the find results fs, as far as they reach
RECURSIVE DlgRun(_, _, _, _)
DlgRun(s, fs, shell_pass, cert_pass) ==
    IF s.pc = "done" THEN s
    ELSE IF DlgNeedsFind(s, shell_pass, cert_pass)
    THEN IF fs = <<>> THEN s
         ELSE DlgRun(DlgStep(s, Head(fs), shell_pass, cert_pass), Tail(fs),
                     shell_pass, cert_pass)
    ELSE DlgRun(DlgStep(s, FrBlocked, shell_pass, cert_pass), fs, shell_pass, cert_pass)

FindSeqs == UNION {[1..k -> FindResults] : k \in 1..MaxFinds}

\* how _initialize_pty can end for these credentials: "ok", or the exception raised
DialogOutcomes(shell_pass, cert_pass) ==
    LET ends == {DlgRun(DlgStart, fs, shell_pass, cert_pass) : fs \in FindSeqs}
    IN  {[out |-> e.out, exc |-> e.exc] : e \in {x \in ends : x.pc = "done"}}


(***************************************************************************)
(* _create_master_entry: the profile built from a URL and a session.       *)
(* A URL is [schema, host, port, username, password] (schema a sequence of *)
(* characters, port None when the URL has none); a context is a type and   *)
(* the attributes it has.                                                  *)
(***************************************************************************)
SchemasSh == {<<"s", "h">>, <<"f", "o", "r", "k">>, <<"l", "o", "c", "a", "l">>,
              <<"f", "i", "l", "e">>}
SchemasSsh == {<<"s", "s", "h">>, <<"s", "c", "p">>, <<"s", "f", "t", "p">>}
SchemasGsi == {<<"g", "s", "i", "s", "s", "h">>, <<"g", "s", "i", "s", "c", "p">>,
               <<"g", "s", "i", "s", "f", "t", "p">>, <<"g", "s", "i", "f", "t", "p">>}

TypeSsh == <<"s", "s", "h">>
TypeUserPass == <<"u", "s", "e", "r", "p", "a", "s", "s">>
TypeX509 == <<"x", "5", "0", "9">>

\* the machine the factory runs on
OsUser == "osuser"                    \* getpass.getuser ()
Pid == "4711"                         \* os.getpid ()
LocalHosts == {"localhost"}           \* saga.utils.misc.host_is_local
ValidHosts == {"localhost", "hostA"}  \* saga.utils.misc.host_is_valid

\* "%d" % int (url.port)
PortStr(port) == CASE port = 22 -> "22" [] port = 2222 -> "2222" [] OTHER -> "0"

EnvVt100 == "/usr/bin/env TERM=vt100 "

\* context.attribute_exists (a) and context.a
AttrSet(c, a) == Has(c.attrs, a) /\ c.attrs[a] # ""

\* context.attribute_exists ("user_cert") and context.user_cert (a path: a sequence)
CertSet(c) == Has(c.attrs, "user_cert") /\ c.attrs["user_cert"] # <<>>

InfoBlank(url) ==
    [schema |-> Lower(url.schema), host_str |-> <<url.host>>, ctx |-> <<>>, pass |-> "",
     cert_pass |-> EmptyDict, type |-> "", user |-> "", exe |-> "", cp_exe |-> "",
     sftp_exe |-> "", ssh_env |-> <<>>, ssh_args |-> <<>>, scp_args |-> <<>>,
     sftp_args |-> <<>>, ctrl |-> <<>>, m_flags |-> <<>>, s_flags |-> <<>>, pty |-> None]

\* Classify taking every schema it does not know for a secure-shell one
ClassifyLenient(inf) ==
    IF inf.schema \in SchemasGsi
    THEN [inf EXCEPT !.type = "ssh", !.exe = "gsissh", !.cp_exe = "gsiscp",
                     !.sftp_exe = "gsisftp"]
    ELSE IF inf.schema \in SchemasSh
    THEN [inf EXCEPT !.type = "sh", !.exe = "sh", !.cp_exe = "cp"]
    ELSE [inf EXCEPT !.type = "ssh", !.exe = "ssh", !.cp_exe = "scp", !.sftp_exe = "sftp"]

\* find out what type of shell we have to deal with
Classify(inf) ==
    IF inf.schema \in SchemasSsh
    THEN [inf EXCEPT !.type = "ssh", !.exe = "ssh", !.cp_exe = "scp", !.sftp_exe = "sftp"]
    ELSE IF inf.schema \in SchemasGsi
    THEN [inf EXCEPT !.type = "ssh", !.exe = "gsissh", !.cp_exe = "gsiscp",
                     !.sftp_exe = "gsisftp"]
    ELSE IF inf.schema \in SchemasSh
    THEN [inf EXCEPT !.type = "sh", !.exe = "sh", !.cp_exe = "cp"]
    ELSE inf

\* if context.type.lower () == "ssh"
CtxSsh(inf, c) ==
    IF Lower(c.type) = TypeSsh /\ inf.schema \in SchemasSsh \cup SchemasGsi
       /\ (Has(c.attrs, "user_id") \/ Has(c.attrs, "user_cert"))
    THEN LET a == IF AttrSet(c, "user_id") THEN [inf EXCEPT !.user = c.attrs["user_id"]]
                  ELSE inf
             b == IF CertSet(c)
                  THEN [a EXCEPT !.ssh_args = @ \o <<"-i">> \o c.attrs["user_cert"],
                                 !.scp_args = @ \o <<"-i">> \o c.attrs["user_cert"],
                                 !.sftp_args = @ \o <<"-i">> \o c.attrs["user_cert"],
                                 !.cert_pass = IF AttrSet(c, "user_pass")
                                               THEN DictSet(@, c.attrs["user_cert"],
                                                            c.attrs["user_pass"])
                                               ELSE @]
                  ELSE a
         IN  [b EXCEPT !.ctx = Append(@, c)]
    ELSE inf

\* if context.type.lower () == "userpass"
CtxUserPass(inf, c) ==
    IF Lower(c.type) = TypeUserPass /\ inf.schema \in SchemasSsh \cup SchemasGsi
       /\ (Has(c.attrs, "user_id") \/ Has(c.attrs, "user_pass"))
    THEN LET a == IF AttrSet(c, "user_id") THEN [inf EXCEPT !.user = c.attrs["user_id"]]
                  ELSE inf
             b == IF AttrSet(c, "user_pass") THEN [a EXCEPT !.pass = c.attrs["user_pass"]]
                  ELSE a
         IN  [b EXCEPT !.ctx = Append(@, c)]
    ELSE inf

\* if context.type.lower () == "x509"
CtxX509(inf, c) ==
    IF Lower(c.type) = TypeX509 /\ inf.schema \in SchemasGsi /\ AttrSet(c, "user_proxy")
    THEN [inf EXCEPT !.ssh_env = @ \o <<"X509_PROXY='", c.attrs["user_proxy"], "' ">>,
                     !.ctx = Append(@, c)]
    ELSE inf

\* for context in session.contexts : ...
RECURSIVE ApplyContexts(_, _)
ApplyContexts(inf, contexts) ==
    IF contexts = <<>> THEN inf
    ELSE ApplyContexts(CtxX509(CtxUserPass(CtxSsh(inf, Head(contexts)), Head(contexts)),
                               Head(contexts)),
                       Tail(contexts))

\* if url.port and url.port != -1
ApplyPort(inf, url) ==
    IF url.port # None /\ url.port # 0 /\ url.port # -1
    THEN [inf EXCEPT !.ssh_args = @ \o <<"-p", PortStr(url.port)>>,
                     !.scp_args = @ \o <<"-p", PortStr(url.port)>>,
                     !.sftp_args = @ \o <<"-P", PortStr(url.port)>>]
    ELSE inf

\* the data given in the URL take precedence
ApplyUrl(inf, url) ==
    LET a == IF url.username # "" THEN [inf EXCEPT !.user = url.username] ELSE inf
    IN  IF url.password # "" THEN [a EXCEPT !.pass = url.password] ELSE a

CtrlPrefix == "~/.saga/adaptors/shell/ssh_%h_%p."

\* host_str, ctrl, m_flags, s_flags
ApplyUser(inf) ==
    LET a == IF inf.user # ""
             THEN [inf EXCEPT !.host_str = <<inf.user, "@">> \o @,
                              !.ctrl = <<CtrlPrefix, Pid, ".", inf.user, ".ctrl">>]
             ELSE [inf EXCEPT !.user = OsUser, !.ctrl = <<CtrlPrefix, Pid, ".ctrl">>]
    IN  [a EXCEPT !.m_flags = <<"-o ControlMaster=yes -o ControlPath=">> \o a.ctrl,
                  !.s_flags = <<"-o ControlMaster=no  -o ControlPath=">> \o a.ctrl]

\* _create_master_entry (url, session, logger): the exception raised, or the info
CreateMasterEntry(url, session) ==
    LET c == Classify(InfoBlank(url))
    IN  IF c.type = ""
        THEN [exc |-> Exc("BadParameter", <<"cannot handle schema '">> \o url.schema \o <<"://'">>),
              info |-> c]
        ELSE IF c.type = "sh"
        THEN IF url.host \notin LocalHosts
             THEN [exc |-> Exc("BadParameter", <<"expect local host for '">> \o url.schema
                                               \o <<"://', not '", url.host, "'">>),
                   info |-> c]
             ELSE [exc |-> NoExc, info |-> [c EXCEPT !.user = OsUser]]
        ELSE IF url.host \notin ValidHosts
             THEN [exc |-> Exc("BadParameter", <<"Could not resolve host '", url.host, "'">>),
                   info |-> c]
             ELSE [exc |-> NoExc,
                   info |-> ApplyUser(ApplyUrl(ApplyPort(
                                ApplyContexts([c EXCEPT !.ssh_env = <<EnvVt100>>,
                                                        !.ssh_args = <<"-t">>],
                                              session), url), url))]

(***************************************************************************)
(* The calls the model makes: URLs and sessions.                           *)
(***************************************************************************)
Url(schema, host, port, username, password) ==
    [schema |-> schema, host |-> host, port |-> port, username |-> username,
     password |-> password]

CtxCert == [type |-> TypeSsh, attrs |-> [a \in {"user_cert", "user_pass"} |->
                                          IF a = "user_cert" THEN CertK1 ELSE "pp"]]

Inputs ==
    {[url |-> Url(<<"s", "s", "h">>, "hostA", None, "alice", "pw"), session |-> <<>>],
     [url |-> Url(<<"S", "S", "H">>, "hostA", 2222, "alice", ""), session |-> <<CtxCert>>],
     [url |-> Url(<<"g", "s", "i", "s", "s", "h">>, "hostA", None, "alice", "pw"),
      session |-> <<>>],
     [url |-> Url(<<"f", "o", "r", "k">>, "localhost", None, "", ""), session |-> <<>>],
     [url |-> Url(<<"F", "o", "r", "k">>, "hostA", None, "", ""), session |-> <<>>],
     [url |-> Url(<<"h", "t", "t", "p">>, "hostA", None, "", ""), session |-> <<>>]}


\* the credentials of the profiles the model's calls build
Creds ==
    {<<r.info.pass, r.info.cert_pass>> :
        r \in {x \in {CreateMasterEntry(i.url, i.session) : i \in Inputs} : x.exc = NoExc}}

DialogTable == [c \in Creds |-> DialogOutcomes(c[1], c[2])]

\* how the dialog of a PTY driven with the credentials of inf can end
DialogEnds(inf) == DialogTable[<<inf.pass, inf.cert_pass>>]

(***************************************************************************)
(* The factory's state.                                                    *)
(***************************************************************************)
NoInfo == InfoBlank(Url(<<>>, "", None, "", ""))

\* the end of a call: the thread, the method and its local info, what it raised, the
\* entry or the slave it returned, whether alive (recover=True) restarted the master,
\* where the exception was raised, the exit code and the output of the copy slave
NoRes ==
    [st |-> "none", t |-> "", op |-> "none", local |-> NoInfo, exc |-> NoExc,
     info |-> NoInfo, pty |-> None, revived |-> FALSE, origin |-> "none",
     exit_code |-> None, cache |-> <<>>]
Raised(e) == [NoRes EXCEPT !.st = "raise", !.exc = e]
\* raised by the statement that spawns a PTY ("spawn") or by _initialize_pty ("dialog")
RaisedAt(e, origin) == [Raised(e) EXCEPT !.origin = origin]
Ret(inf, p) == [NoRes EXCEPT !.st = "ret", !.info = inf, !.pty = p]

DlgIdle == [s |-> DlgStart, shell_pass |-> "", cert_pass |-> EmptyDict, opk |-> "none"]

\* type_s, user_s, host_s
KeyOf(inf) == <<inf.host_str, inf.user, inf.type>>

\* a PTYProcess object: master or slave, whether its child runs, how its dialog
\* ended, whether the caller got it
NewPty(kind, key, alive) ==
    [kind |-> kind, key |-> key, alive |-> alive, dlg |-> "none", handed |-> FALSE]

\* type_s in self.registry[host_s][user_s], all three levels present
RegHas(reg, k) == Has(reg, k[1]) /\ Has(reg[k[1]], k[2]) /\ Has(reg[k[1]][k[2]], k[3])

\* self.registry[host_s][user_s][type_s]
RegEntry(reg, k) == reg[k[1]][k[2]][k[3]]

\* the entries stored in the registry, with their keys
Entries(reg) ==
    UNION {UNION {{[key |-> <<h, u, ty>>, info |-> reg[h][u][ty]] : ty \in DOMAIN reg[h][u]}
                  : u \in DOMAIN reg[h]} : h \in DOMAIN reg}

Init ==
    /\ registry = EmptyDict
    /\ ptys = <<>>
    /\ returned = {}
    /\ pc = [t \in Threads |-> "idle"]
    /\ op = [t \in Threads |-> "none"]
    /\ info = [t \in Threads |-> NoInfo]
    /\ cur = [t \in Threads |-> None]
    /\ res = NoRes
    /\ d = DlgIdle

\* the call ends with r: the thread's locals are gone
Finish(t, r) ==
    /\ pc' = [pc EXCEPT ![t] = "idle"]
    /\ op' = [op EXCEPT ![t] = "none"]
    /\ info' = [info EXCEPT ![t] = NoInfo]
    /\ cur' = [cur EXCEPT ![t] = None]
    /\ res' = [r EXCEPT !.t = t, !.op = IF op[t] = "none" THEN r.op ELSE op[t],
                         !.local = info[t]]

\* the call goes on at line l
Goto(t, l) == pc' = [pc EXCEPT ![t] = l] /\ res' = NoRes

(***************************************************************************)
(* initialize (url, session)                                               *)
(***************************************************************************)
\* info = self._create_master_entry (url, session, logger), called with one of inputs
InitializeWith(t, inputs) ==
    /\ pc[t] = "idle"
    /\ \E inp \in inputs :
          LET r == CreateMasterEntry(inp.url, inp.session)
          IN  IF r.exc # NoExc
              THEN Finish(t, [Raised(r.exc) EXCEPT !.op = "initialize"])
              ELSE /\ Goto(t, "l162")
                   /\ op' = [op EXCEPT ![t] = "initialize"]
                   /\ info' = [info EXCEPT ![t] = r.info]
                   /\ UNCHANGED cur
    /\ UNCHANGED <<registry, ptys, returned, d>>

InitializeCall(t) == InitializeWith(t, Inputs)

\* if not host_s in self.registry : (the test)
L162(t) ==
    /\ pc[t] = "l162"
    /\ Goto(t, IF Has(registry, info[t].host_str) THEN "l163" ELSE "l162s")
    /\ UNCHANGED <<registry, ptys, returned, op, info, cur, d>>

\* self.registry[host_s] = {}
L162Set(t) ==
    /\ pc[t] = "l162s"
    /\ registry' = DictSet(registry, info[t].host_str, EmptyDict)
    /\ Goto(t, "l163")
    /\ UNCHANGED <<ptys, returned, op, info, cur, d>>

\* if not user_s in self.registry[host_s] : (the test)
L163(t) ==
    /\ pc[t] = "l163"
    /\ Goto(t, IF Has(registry[info[t].host_str], info[t].user) THEN "l164" ELSE "l163s")
    /\ UNCHANGED <<registry, ptys, returned, op, info, cur, d>>

\* self.registry[host_s][user_s] = {}
L163Set(t) ==
    /\ pc[t] = "l163s"
    /\ registry' = DictSet(registry, info[t].host_str,
                           DictSet(registry[info[t].host_str], info[t].user, EmptyDict))
    /\ Goto(t, "l164")
    /\ UNCHANGED <<ptys, returned, op, info, cur, d>>

KeyError == Exc("KeyError", <<>>)

\* L164 with the test lost: every call takes the branch of a new master
L164AlwaysNew(t) ==
    /\ pc[t] = "l164"
    /\ Goto(t, "l172")
    /\ UNCHANGED <<registry, ptys, returned, op, info, cur, d>>

\* if not type_s in self.registry[host_s][user_s] :
L164(t) ==
    /\ pc[t] = "l164"
    /\ IF ~Has(registry[info[t].host_str], info[t].user)
       THEN Finish(t, Raised(KeyError))
       ELSE /\ Goto(t, IF ~RegHas(registry, KeyOf(info[t])) THEN "l172" ELSE "l187")
            /\ UNCHANGED <<op, info, cur>>
    /\ UNCHANGED <<registry, ptys, returned, d>>

MsgSpawn == <<"C", "o", "u", "l", "d", " ", "n", "o", "t", " ", "r", "u", "n">>
MsgSpawnDenied ==
    MsgSpawn \o <<":", " ", "P", "e", "r", "m", "i", "s", "s", "i", "o", "n", " ", "d", "e", "n", "i", "e", "d">>

\* what the PTYProcess constructor can raise
SpawnErrors == {Exc("NoSuccess", MsgSpawn), Exc("NoSuccess", MsgSpawnDenied)}

\* L172 with the registration of line 181 moved up, before the dialog
L172Early(t) ==
    /\ pc[t] = "l172"
    /\ Len(ptys) < MaxPty
    /\ ptys' = Append(ptys, NewPty("master", KeyOf(info[t]), TRUE))
    /\ info' = [info EXCEPT ![t].pty = Len(ptys) + 1]
    /\ cur' = [cur EXCEPT ![t] = Len(ptys) + 1]
    /\ registry' = IF Has(registry[info[t].host_str], info[t].user)
                   THEN DictSet(registry, info[t].host_str,
                           DictSet(registry[info[t].host_str], info[t].user,
                              DictSet(registry[info[t].host_str][info[t].user], info[t].type,
                                      [info[t] EXCEPT !.pty = Len(ptys) + 1])))
                   ELSE registry
    /\ Goto(t, "l178")
    /\ UNCHANGED <<op, returned, d>>

\* info['pty'] = PTYProcess (m_cmd) ; if not info['pty'].alive () : raise NoSuccess
L172(t) ==
    /\ pc[t] = "l172"
    /\ Len(ptys) < MaxPty
    /\ \/ /\ \E e \in SpawnErrors : Finish(t, RaisedAt(e, "spawn"))
          /\ UNCHANGED ptys
       \/ /\ Finish(t, RaisedAt(Exc("NoSuccess", <<"Shell not connected to ">> \o info[t].host_str),
                                 "spawn"))
          /\ UNCHANGED ptys
       \/ /\ ptys' = Append(ptys, NewPty("master", KeyOf(info[t]), TRUE))
          /\ info' = [info EXCEPT ![t].pty = Len(ptys) + 1]
          /\ cur' = [cur EXCEPT ![t] = Len(ptys) + 1]
          /\ Goto(t, "l178")
          /\ UNCHANGED op
    /\ UNCHANGED <<registry, returned, d>>

\* L178 with the entry registered whether or not the dialog succeeds
L178RegisterAnyway(t) ==
    /\ pc[t] = "l178"
    /\ registry' = DictSet(registry, info[t].host_str,
                      DictSet(registry[info[t].host_str], info[t].user,
                         DictSet(registry[info[t].host_str][info[t].user], info[t].type,
                                 info[t])))
    /\ \E o \in DialogEnds(info[t]) :
          IF o.out = "ok"
          THEN /\ ptys' = [ptys EXCEPT ![cur[t]].dlg = "ok"]
               /\ Goto(t, "l181")
               /\ UNCHANGED <<op, info, cur>>
          ELSE /\ ptys' = [ptys EXCEPT ![cur[t]].dlg = "fail"]
               /\ Finish(t, Raised(o.exc))
    /\ UNCHANGED <<returned, d>>

\* self._initialize_pty (info['pty'], info['pass'], info['cert_pass'], info['logger'])
L178(t) ==
    /\ pc[t] = "l178"
    /\ \E o \in DialogEnds(info[t]) :
          IF o.out = "ok"
          THEN /\ ptys' = [ptys EXCEPT ![cur[t]].dlg = "ok"]
               /\ Goto(t, "l181")
               /\ UNCHANGED <<op, info, cur>>
          ELSE /\ ptys' = [ptys EXCEPT ![cur[t]].dlg = "fail"]
               /\ Finish(t, RaisedAt(o.exc, "dialog"))
    /\ UNCHANGED <<registry, returned, d>>

\* self.registry[host_s][user_s][type_s] = info ; return info
L181(t) ==
    /\ pc[t] = "l181"
    /\ LET h == info[t].host_str
           u == info[t].user
       IN  IF ~Has(registry[h], u)
           THEN /\ Finish(t, Raised(KeyError))
                /\ UNCHANGED <<registry, returned>>
           ELSE /\ registry' = DictSet(registry, h,
                                  DictSet(registry[h], u,
                                     DictSet(registry[h][u], info[t].type, info[t])))
                /\ returned' = returned \cup {info[t]}
                /\ Finish(t, Ret(info[t], None))
    /\ UNCHANGED <<ptys, d>>

\* PTYProcess.alive (recover=True): a dead child is restarted, which works (ok) or not
AliveRecover(ps, p, ok) ==
    IF ps[p].alive THEN [ptys |-> ps, alive |-> TRUE]
    ELSE IF ok THEN [ptys |-> [ps EXCEPT ![p].alive = TRUE], alive |-> TRUE]
    ELSE [ptys |-> ps, alive |-> FALSE]

\* L187 without line 187: the profile just built is returned, not the registered entry
L187Fresh(t) ==
    /\ pc[t] = "l187"
    /\ \E ok \in BOOLEAN :
          LET e == RegEntry(registry, KeyOf(info[t]))
              a == AliveRecover(ptys, e.pty, ok)
          IN  /\ ptys' = a.ptys
              /\ IF ~a.alive
                 THEN /\ Finish(t, Raised(Exc("IncorrectState",
                                     <<"Lost shell connection to ">> \o e.host_str)))
                      /\ UNCHANGED returned
                 ELSE /\ Finish(t, Ret(info[t], None))
                      /\ returned' = returned \cup {info[t]}
    /\ UNCHANGED <<registry, d>>

\* L187 without the liveness test: the registered entry is returned as it is
L187NoCheck(t) ==
    /\ pc[t] = "l187"
    /\ Finish(t, Ret(RegEntry(registry, KeyOf(info[t])), None))
    /\ UNCHANGED <<registry, ptys, returned, d>>

\* L187 testing the master as it was before the recovery attempt
L187StaleTest(t) ==
    /\ pc[t] = "l187"
    /\ \E ok \in BOOLEAN :
          LET e == RegEntry(registry, KeyOf(info[t]))
              a == AliveRecover(ptys, e.pty, ok)
          IN  /\ ptys' = a.ptys
              /\ IF ~ptys[e.pty].alive
                 THEN /\ Finish(t, Raised(Exc("IncorrectState",
                                     <<"Lost shell connection to ">> \o e.host_str)))
                      /\ UNCHANGED returned
                 ELSE /\ Finish(t, Ret(e, None))
                      /\ returned' = returned \cup {e}
    /\ UNCHANGED <<registry, d>>

\* L187 taking the entry of a master that could not be recovered out of the registry
L187DropsDead(t) ==
    /\ pc[t] = "l187"
    /\ \E ok \in BOOLEAN :
          LET h == info[t].host_str
              u == info[t].user
              e == RegEntry(registry, KeyOf(info[t]))
              a == AliveRecover(ptys, e.pty, ok)
              rest == [ty \in DOMAIN registry[h][u] \ {info[t].type} |-> registry[h][u][ty]]
          IN  /\ ptys' = a.ptys
              /\ IF ~a.alive
                 THEN /\ Finish(t, Raised(Exc("IncorrectState",
                                     <<"Lost shell connection to ">> \o e.host_str)))
                      /\ registry' = DictSet(registry, h, DictSet(registry[h], u, rest))
                      /\ UNCHANGED returned
                 ELSE /\ Finish(t, Ret(e, None))
                      /\ registry' = registry
                      /\ returned' = returned \cup {e}
    /\ UNCHANGED d

\* info = self.registry[host_s][user_s][type_s]
\* if not info['pty'].alive (recover=True) : raise IncorrectState ; return info
L187(t) ==
    /\ pc[t] = "l187"
    /\ IF ~RegHas(registry, KeyOf(info[t]))
       THEN /\ Finish(t, Raised(KeyError))
            /\ UNCHANGED <<ptys, returned>>
       ELSE \E ok \in BOOLEAN :
            LET e == registry[info[t].host_str][info[t].user][info[t].type]
                a == AliveRecover(ptys, e.pty, ok)
            IN  /\ ptys' = a.ptys
                /\ IF ~a.alive
                   THEN /\ Finish(t, Raised(Exc("IncorrectState",
                                       <<"Lost shell connection to ">> \o e.host_str)))
                        /\ UNCHANGED returned
                   ELSE /\ Finish(t, [Ret(e, None) EXCEPT !.revived = ~ptys[e.pty].alive])
                        /\ returned' = returned \cup {e}
    /\ UNCHANGED <<registry, d>>

(***************************************************************************)
(* run_shell (info), run_copy_to (info, ...), run_copy_from (info, ...)    *)
(***************************************************************************)
RunOps == {"run_shell", "run_copy_to", "run_copy_from"}

\* sh_slave / cp_slave = PTYProcess (s_cmd, info['logger'])
RunCall(t) ==
    /\ pc[t] = "idle"
    /\ Len(ptys) < MaxPty
    /\ \E o \in RunOps, e \in returned :
          \/ /\ \E x \in SpawnErrors : Finish(t, [RaisedAt(x, "spawn") EXCEPT !.op = o])
             /\ UNCHANGED ptys
          \/ /\ ptys' = Append(ptys, NewPty("slave", KeyOf(e), TRUE))
             /\ Goto(t, "slave_dialog")
             /\ op' = [op EXCEPT ![t] = o]
             /\ info' = [info EXCEPT ![t] = e]
             /\ cur' = [cur EXCEPT ![t] = Len(ptys) + 1]
    /\ UNCHANGED <<registry, returned, d>>

\* SlaveDialog storing the slave in the registry, in the place of its master
SlaveDialogRegisters(t) ==
    /\ pc[t] = "slave_dialog"
    /\ registry' = DictSet(registry, info[t].host_str,
                      DictSet(registry[info[t].host_str], info[t].user,
                         DictSet(registry[info[t].host_str][info[t].user], info[t].type,
                                 [info[t] EXCEPT !.pty = cur[t]])))
    /\ \E o \in DialogEnds(info[t]) :
          IF o.out # "ok"
          THEN /\ ptys' = [ptys EXCEPT ![cur[t]].dlg = "fail"]
               /\ Finish(t, RaisedAt(o.exc, "dialog"))
          ELSE IF op[t] = "run_shell"
          THEN /\ ptys' = [ptys EXCEPT ![cur[t]].dlg = "ok", ![cur[t]].handed = TRUE]
               /\ Finish(t, Ret(NoInfo, cur[t]))
          ELSE /\ ptys' = [ptys EXCEPT ![cur[t]].dlg = "ok"]
               /\ Goto(t, "l318")
               /\ UNCHANGED <<op, info, cur>>
    /\ UNCHANGED <<returned, d>>

\* self._initialize_pty (slave, info['pass'], info['cert_pass'], info['logger'])
\* run_shell: return sh_slave
SlaveDialog(t) ==
    /\ pc[t] = "slave_dialog"
    /\ \E o \in DialogEnds(info[t]) :
          IF o.out # "ok"
          THEN /\ ptys' = [ptys EXCEPT ![cur[t]].dlg = "fail"]
               /\ Finish(t, RaisedAt(o.exc, "dialog"))
          ELSE IF op[t] = "run_shell"
          THEN /\ ptys' = [ptys EXCEPT ![cur[t]].dlg = "ok", ![cur[t]].handed = TRUE]
               /\ Finish(t, Ret(NoInfo, cur[t]))
          ELSE /\ ptys' = [ptys EXCEPT ![cur[t]].dlg = "ok"]
               /\ Goto(t, "l318")
               /\ UNCHANGED <<op, info, cur>>
    /\ UNCHANGED <<registry, returned, d>>

TailLen == 256

\* s[-k:]
LastOf(s, k) == IF Len(s) <= k THEN s ELSE SubSeq(s, Len(s) - k + 1, Len(s))

\* what the copy slave has printed when it exits: n characters
Digits == <<"0", "1", "2", "3", "4", "5", "6", "7", "8", "9">>
CacheOf(n) == [i \in 1..n |-> Digits[(i % 10) + 1]]
CacheLens == {0, 3, 256, 257, 300}
ExitCodes == {0, 1, None}

MsgCopyFailed == <<"file copy failed: ">>

\* CopyWait with the first 256 characters of the output in the message
CopyWaitHead(t) ==
    /\ pc[t] = "l318"
    /\ ptys' = [ptys EXCEPT ![cur[t]].alive = FALSE]
    /\ \E exit_code \in ExitCodes, n \in CacheLens :
          LET r == IF exit_code # 0
                   THEN Raised(Exc("NoSuccess", MsgCopyFailed \o Slice(CacheOf(n), 0, TailLen)))
                   ELSE Ret(NoInfo, None)
          IN  Finish(t, [r EXCEPT !.exit_code = exit_code, !.cache = CacheOf(n)])
    /\ UNCHANGED <<registry, returned, d>>

\* cp_slave.write (s_in) ; cp_slave.wait () ; if cp_slave.exit_code != 0 : raise NoSuccess
CopyWait(t) ==
    /\ pc[t] = "l318"
    /\ ptys' = [ptys EXCEPT ![cur[t]].alive = FALSE]
    /\ \E exit_code \in ExitCodes, n \in CacheLens :
          LET r == IF exit_code # 0
                   THEN Raised(Exc("NoSuccess", MsgCopyFailed \o LastOf(CacheOf(n), TailLen)))
                   ELSE Ret(NoInfo, None)
          IN  Finish(t, [r EXCEPT !.exit_code = exit_code, !.cache = CacheOf(n)])
    /\ UNCHANGED <<registry, returned, d>>

(***************************************************************************)
(* The environment: an idle master is reclaimed (ControlPersist, the       *)
(* PTYProcess level GC); a later recovery attempt restarts it or does not. *)
(***************************************************************************)
Reclaim ==
    /\ \E e \in Entries(registry) :
          /\ ptys[e.info.pty].alive
          /\ ptys' = [ptys EXCEPT ![e.info.pty].alive = FALSE]
    /\ res' = NoRes
    /\ UNCHANGED <<registry, returned, pc, op, info, cur, d>>

\* the process of the master that initialize is creating exits after its dialog ended
\* (the connection drops behind the prompt)
MasterExits(t) ==
    /\ pc[t] = "l181"
    /\ ptys[cur[t]].alive
    /\ ptys' = [ptys EXCEPT ![cur[t]].alive = FALSE]
    /\ res' = NoRes
    /\ UNCHANGED <<registry, returned, pc, op, info, cur, d>>

Step(t) ==
    \/ InitializeCall(t)
    \/ L162(t)
    \/ L162Set(t)
    \/ L163(t)
    \/ L163Set(t)
    \/ L164(t)
    \/ L172(t)
    \/ L178(t)
    \/ L181(t)
    \/ L187(t)
    \/ RunCall(t)
    \/ SlaveDialog(t)
    \/ CopyWait(t)
    \/ MasterExits(t)

\* threads call the factory concurrently
Next == (\E t \in Threads : Step(t)) \/ Reclaim

Spec == Init /\ [][Next]_vars

\* one call at a time: a thread moves only while every other thread is outside the factory
Alone(t) == \A u \in Threads \ {t} : pc[u] = "idle"

NextSeq ==
    \/ \E t \in Threads :
          \/ Alone(t) /\ InitializeCall(t)
          \/ Alone(t) /\ L162(t)
          \/ Alone(t) /\ L162Set(t)
          \/ Alone(t) /\ L163(t)
          \/ Alone(t) /\ L163Set(t)
          \/ Alone(t) /\ L164(t)
          \/ Alone(t) /\ L172(t)
          \/ Alone(t) /\ L178(t)
          \/ Alone(t) /\ L181(t)
          \/ Alone(t) /\ L187(t)
          \/ Alone(t) /\ RunCall(t)
          \/ Alone(t) /\ SlaveDialog(t)
          \/ Alone(t) /\ CopyWait(t)
          \/ Alone(t) /\ MasterExits(t)
    \/ Reclaim

SpecSeq == Init /\ [][NextSeq]_vars


(***************************************************************************)
(* The dialog of one PTY, followed step by step: the credentials and the   *)
(* operation are drawn at the start, each find() result when it is asked   *)
(* for, and the PTY's log keeps every find result and every write.         *)
(***************************************************************************)
\* _SCRIPTS[type]['copy_to_in'] % repl, _SCRIPTS[type]['copy_from_in'] % repl
CopyScript(type, o, src, tgt, cp_flags) ==
    IF type = "ssh"
    THEN <<"progress \n ", IF o = "run_copy_to" THEN "put" ELSE "get", " ", cp_flags, " ",
           src, " ", tgt, " \n exit \n">>
    ELSE <<"cd ~ && exec ", "cp", " ", cp_flags, " ", src, " ", tgt>>

DlgPasswords == {"", "pw"}
DlgCertPasswords ==
    {EmptyDict, [c \in {CertK1} |-> "pp"],
     [c \in {CertK1, CertK2} |-> IF c = CertK1 THEN "pp" ELSE "qq"]}
DlgOps == {"initialize"} \cup RunOps

InitDialog ==
    /\ registry = EmptyDict
    /\ ptys = <<>>
    /\ returned = {}
    /\ pc = [t \in Threads |-> "idle"]
    /\ op = [t \in Threads |-> "none"]
    /\ info = [t \in Threads |-> NoInfo]
    /\ cur = [t \in Threads |-> None]
    /\ res = NoRes
    /\ \E p \in DlgPasswords, c \in DlgCertPasswords, o \in DlgOps :
          d = [s |-> DlgStart, shell_pass |-> p, cert_pass |-> c, opk |-> o]

\* the find() calls the PTY has answered
NumFinds(log) == Cardinality({i \in DOMAIN log : log[i].ev = "find"})

\* one step of _initialize_pty; a step that calls find() needs the PTY to answer
DlgTake ==
    /\ \E f \in FindResults :
          /\ DlgNeedsFind(d.s, d.shell_pass, d.cert_pass) => NumFinds(d.s.log) < MaxFinds
          /\ d' = [d EXCEPT !.s = DlgStep(d.s, f, d.shell_pass, d.cert_pass)]
    /\ UNCHANGED <<registry, ptys, returned, pc, op, info, cur, res>>

\* n, match = pty_shell.find (prompt_patterns, _PTY_TIMEOUT)
DlgL207 ==
    /\ d.s.pc = "l207"
    /\ DlgTake

\* if n == None
DlgL216 ==
    /\ d.s.pc = "l216"
    /\ DlgTake

\* if n == 0
DlgL224 ==
    /\ d.s.pc = "l224"
    /\ DlgTake

\* if n == 1 ... elif n == 2 ... elif n == 3
DlgL235 ==
    /\ d.s.pc = "l235"
    /\ DlgTake

\* run_copy_to, run_copy_from after _initialize_pty returned: cp_slave.write ("%s\n" % s_in)
DlgCopyScript ==
    /\ d.s.pc = "done" /\ d.s.out = "ok"
    /\ d.opk \in {"run_copy_to", "run_copy_from"}
    /\ d' = [d EXCEPT !.s = [DlgWrite(d.s, CopyScript("ssh", d.opk, "src", "tgt", "") \o <<"\n">>)
                              EXCEPT !.pc = "l319"]]
    /\ UNCHANGED <<registry, ptys, returned, pc, op, info, cur, res>>

NextDialog == DlgL207 \/ DlgL216 \/ DlgL224 \/ DlgL235 \/ DlgCopyScript

SpecDialog == InitDialog /\ [][NextDialog]_vars

\* _initialize_pty runs in the caller's thread, and while True has no sleep and no
\* wait other than find(): a step that can be taken is taken
SpecDialogFair == SpecDialog /\ WF_vars(NextDialog)

\* the calls made concurrently: secure-shell and local URLs the builder accepts
ConcurrentInputs ==
    {i \in Inputs : /\ CreateMasterEntry(i.url, i.session).exc = NoExc
                    /\ Lower(i.url.schema) \notin SchemasGsi}

InitializeConcurrent(t) == InitializeWith(t, ConcurrentInputs)

\* threads call initialize concurrently
InitializeStep(t) ==
    \/ InitializeConcurrent(t)
    \/ L162(t)
    \/ L162Set(t)
    \/ L163(t)
    \/ L163Set(t)
    \/ L164(t)
    \/ L172(t)
    \/ L178(t)
    \/ L181(t)
    \/ L187(t)

NextInitialize == (\E t \in Threads : InitializeStep(t)) \/ Reclaim

SpecInitialize == Init /\ [][NextInitialize]_vars

(***************************************************************************)
(* _translate_exception applied to exceptions of every class, with         *)
(* messages made of up to MaxWords words.                                  *)
(***************************************************************************)
MaxWords == 2      \* words in one error message

WAuthentication == <<"A", "u", "t", "h", "e", "n", "t", "i", "c", "a", "t", "i", "o", "n">>
WPassword == <<"p", "a", "s", "s", "w", "o", "r", "d">>
WExchange == <<"s", "s", "h", "_", "e", "x", "c", "h", "a", "n", "g", "e", "_", "i", "d", "e", "n", "t", "i", "f", "i", "c", "a", "t", "i", "o", "n">>
WDenied == <<"P", "e", "r", "m", "i", "s", "s", "i", "o", "n", " ", "d", "e", "n", "i", "e", "d">>
WShared == <<"S", "h", "a", "r", "e", "d", " ", "c", "o", "n", "n", "e", "c", "t", "i", "o", "n">>
WPtyAlloc == <<"P", "T", "Y", " ", "a", "l", "l", "o", "c", "a", "t", "i", "o", "n">>
WEof == <<"E", "O", "F">>

TrWords == {WAuthentication, WPassword, WExchange, WDenied, WShared, WPtyAlloc, WEof}

\* the words of ws with a blank between them
RECURSIVE Join(_)
Join(ws) ==
    IF ws = <<>> THEN <<>>
    ELSE IF Len(ws) = 1 THEN ws[1]
    ELSE ws[1] \o <<" ">> \o Join(Tail(ws))

TrMessages == {Join(ws) : ws \in UNION {[1..k -> TrWords] : k \in 0..MaxWords}}

\* exceptions that are no saga exceptions
OtherClasses == {"OSError", "ValueError"}

TrInputs == {Exc(c, m) : c \in SagaClasses \cup OtherClasses, m \in TrMessages}

\* the exception handed to the translator, and what it returned once it has
TrCall(e) == [in |-> e, out |-> NoExc, done |-> FALSE]

InitTranslate ==
    /\ registry = EmptyDict
    /\ ptys = <<>>
    /\ returned = {}
    /\ pc = [t \in Threads |-> "idle"]
    /\ op = [t \in Threads |-> "none"]
    /\ info = [t \in Threads |-> NoInfo]
    /\ cur = [t \in Threads |-> None]
    /\ res = NoRes
    /\ \E e \in TrInputs : d = TrCall(e)

\* raise self._translate_exception (e)
TranslateCall ==
    /\ ~d.done
    /\ d' = [d EXCEPT !.out = TranslateException(d.in), !.done = TRUE]
    /\ UNCHANGED <<registry, ptys, returned, pc, op, info, cur, res>>

NextTranslate == TranslateCall

SpecTranslate == InitTranslate /\ [][NextTranslate]_vars

(***************************************************************************)
(* _create_master_entry applied to URLs of every family, with and without  *)
(* user, password and port, and to sessions of up to MaxCtx contexts.      *)
(***************************************************************************)
MaxCtx == 2        \* contexts in one session

BuildSchemas == {<<"s", "s", "h">>, <<"g", "s", "i", "s", "s", "h">>, <<"f", "o", "r", "k">>,
                 <<"h", "t", "t", "p">>}
BuildHosts == {"hostA", "localhost", "nohost"}
BuildPorts == {None, 2222}
BuildUsers == {"", "alice"}
BuildPasswords == {"", "pw"}

BuildUrls ==
    {Url(sc, h, p, u, pw) : sc \in BuildSchemas, h \in BuildHosts, p \in BuildPorts,
                            u \in BuildUsers, pw \in BuildPasswords}

CtxUserId == [type |-> TypeSsh, attrs |-> [a \in {"user_id"} |-> "carol"]]
CtxUserIdPass ==
    [type |-> TypeUserPass,
     attrs |-> [a \in {"user_id", "user_pass"} |-> IF a = "user_id" THEN "dave" ELSE "dpw"]]
CtxProxy == [type |-> TypeX509, attrs |-> [a \in {"user_proxy"} |-> "px"]]

BuildContexts == {CtxCert, CtxUserId, CtxUserIdPass, CtxProxy}
BuildSessions == UNION {[1..k -> BuildContexts] : k \in 0..MaxCtx}

\* the arguments of a call of the builder, and what it gave once it has returned
BuildCall(url, session) ==
    [url |-> url, session |-> session, out |-> [exc |-> NoExc, info |-> NoInfo],
     done |-> FALSE]

InitBuild ==
    /\ registry = EmptyDict
    /\ ptys = <<>>
    /\ returned = {}
    /\ pc = [t \in Threads |-> "idle"]
    /\ op = [t \in Threads |-> "none"]
    /\ info = [t \in Threads |-> NoInfo]
    /\ cur = [t \in Threads |-> None]
    /\ res = NoRes
    /\ \E url \in BuildUrls, session \in BuildSessions : d = BuildCall(url, session)

\* info = self._create_master_entry (url, session, logger)
CreateMasterEntryCall ==
    /\ ~d.done
    /\ d' = [d EXCEPT !.out = CreateMasterEntry(d.url, d.session), !.done = TRUE]
    /\ UNCHANGED <<registry, ptys, returned, pc, op, info, cur, res>>

NextBuild == CreateMasterEntryCall

SpecBuild == InitBuild /\ [][NextBuild]_vars

(***************************************************************************)
(* Properties of the registry.                                             *)
(***************************************************************************)
\* the master PTY registered under key k of the registry
RegPty(reg, k) == RegEntry(reg, k).pty

\* C1: every entry stored in the registry under a (host_str, user, type) key belongs
\* to a master PTY whose dialog has completed successfully: no entry is in the
\* registry while its dialog is still running or after its dialog failed.
C1_RegisteredAfterDialog ==
    \A e \in Entries(registry) :
        /\ e.info.pty \in 1..Len(ptys)
        /\ ptys[e.info.pty].kind = "master"
        /\ ptys[e.info.pty].dlg = "ok"
        /\ \A t \in Threads : pc[t] = "l178" => cur[t] # e.info.pty

\* an entry is registered while another thread runs the dialog of a master for the same key
C1_Witness ==
    \E e \in Entries(registry), t \in Threads : pc[t] = "l178" /\ KeyOf(info[t]) = e.key

\* C2: when threads call initialize concurrently for one key that is not registered
\* yet, at most one master is created for the key and all callers obtain the same
\* entry: any two entries initialize has returned for one key are the same master.
C2_OneMasterPerKey ==
    \A e1 \in returned, e2 \in returned : KeyOf(e1) = KeyOf(e2) => e1.pty = e2.pty

\* C3: of two initialize calls, one after the other, whose URL and session give the
\* same (host, user, type), the later returns the entry the earlier registered, with
\* the password and certificate passwords cached then, not the profile it built.
C3_SameEntryAcrossCalls ==
    (res.st = "ret" /\ res.op = "initialize") =>
        /\ RegHas(registry, KeyOf(res.local))
        /\ res.info = RegEntry(registry, KeyOf(res.local))
        /\ \A e \in returned : KeyOf(e) = KeyOf(res.local) => e = res.info

\* a call returned a registered entry whose cached password is not the one of the
\* profile the call built
C3_Witness ==
    /\ res.st = "ret" /\ res.op = "initialize"
    /\ res.local.pty = None
    /\ res.local.pass # res.info.pass

\* C4: initialize on a registered master whose PTY is alive spawns no PTY, runs no
\* dialog, leaves the registry as it was and returns the registered entry.
C4_IdempotentOnLiveMaster ==
    [][\A t \in Threads :
         (/\ op[t] = "initialize" /\ pc'[t] # pc[t]
          /\ RegHas(registry, KeyOf(info[t]))
          /\ ptys[RegPty(registry, KeyOf(info[t]))].alive)
         => /\ registry' = registry
            /\ ptys' = ptys
            /\ pc'[t] \in {"l163", "l164", "l187", "idle"}
            /\ pc'[t] = "idle" =>
                  res'.st = "ret" /\ res'.info = RegEntry(registry, KeyOf(info[t]))]_vars

\* a call found its key registered and returned the entry without a PTY of its own
C4_Witness ==
    /\ res.st = "ret" /\ res.op = "initialize"
    /\ res.local.pty = None
    /\ ~res.revived

\* C5: if the dialog raises while initialize creates a master, the error reaches the
\* caller, no entry for the key is in the registry, and no step of the call before
\* the registration changes the entries registered under other keys.
C5_FailedDialogRegistersNothing ==
    [][\A t \in Threads :
         /\ (pc[t] = "l178" /\ pc'[t] = "idle")
            => /\ res'.st = "raise" /\ res'.op = "initialize"
               /\ ~RegHas(registry', KeyOf(info[t]))
         /\ (op[t] = "initialize" /\ pc[t] # "l181" /\ pc'[t] # pc[t])
            => Entries(registry') = Entries(registry)]_vars

\* the dialog of a new master failed on a credential while another key is registered
C5_Witness ==
    /\ res.st = "raise" /\ res.op = "initialize"
    /\ res.exc.cls = "AuthenticationFailed"
    /\ res.local.pty # None
    /\ Entries(registry) # {}
    /\ ~RegHas(registry, KeyOf(res.local))

\* a PTY is accounted for: registered, returned to a caller, or held by a running call
Accounted(p) ==
    \/ \E e \in Entries(registry) : e.info.pty = p
    \/ \E e \in returned : e.pty = p
    \/ ptys[p].handed
    \/ \E t \in Threads : cur[t] = p

\* C6: every PTY the factory spawns has a release path: when the dialog fails on it,
\* it is terminated before the error reaches the caller, so no live PTY is neither
\* registered, nor handed to a caller, nor held by a running call.
C6_NoLeakedPty ==
    \A p \in 1..Len(ptys) : ptys[p].alive => Accounted(p)

\* a call of initialize is at the liveness test of a registered master that is dead
DeadHit(t) ==
    /\ pc[t] = "l187" /\ pc'[t] = "idle"
    /\ RegHas(registry, KeyOf(info[t]))
    /\ ~ptys[RegPty(registry, KeyOf(info[t]))].alive

\* C7 as claimed: after a registered master is reclaimed, the next initialize for its
\* key recreates the master: the registry then holds one entry for the key, alive.
C7_RecreatedAfterReclaim ==
    [][\A t \in Threads :
         DeadHit(t) =>
            /\ RegHas(registry', KeyOf(info[t]))
            /\ ptys'[RegPty(registry', KeyOf(info[t]))].alive]_vars

\* C7 amended: after a registered master is reclaimed, the next initialize for its key
\* makes a recovery attempt on the registered master. If it works the call returns
\* the registered entry, the registry holds that one entry for the key and its PTY is
\* alive; if not, the call raises IncorrectState and the dead entry stays registered.
\* No new PTY is spawned either way.
C7_RecoveredOrIncorrectState ==
    [][\A t \in Threads :
         DeadHit(t) =>
            LET k == KeyOf(info[t])
            IN  /\ registry' = registry
                /\ Len(ptys') = Len(ptys)
                /\ Cardinality({e \in Entries(registry') : e.key = k}) = 1
                /\ \/ /\ res'.st = "ret" /\ res'.info = RegEntry(registry, k)
                      /\ ptys'[RegPty(registry, k)].alive
                   \/ /\ res'.st = "raise" /\ res'.exc.cls = "IncorrectState"
                      /\ ~ptys'[RegPty(registry, k)].alive]_vars

\* a call returned a registered entry whose master it found dead and restarted
C7_Witness ==
    /\ res.st = "ret" /\ res.op = "initialize" /\ res.revived
    /\ ptys[res.info.pty].alive

\* C8: on a registry hit initialize tests the master with a recovery attempt: it
\* raises IncorrectState exactly when the master is dead and was not recovered, and
\* otherwise returns the registered entry, a dead master having been restarted.
C8_HitChecksLiveness ==
    [][\A t \in Threads :
         (pc[t] = "l187" /\ pc'[t] = "idle" /\ RegHas(registry, KeyOf(info[t]))) =>
            LET e == RegEntry(registry, KeyOf(info[t]))
            IN  /\ res'.st = "raise" <=> ~ptys'[e.pty].alive
                /\ res'.st = "raise" => res'.exc.cls = "IncorrectState" /\ ~ptys[e.pty].alive
                /\ res'.st = "ret" => res'.info = e /\ (res'.revived <=> ~ptys[e.pty].alive)
                /\ res'.st \in {"ret", "raise"}]_vars

\* a hit on a dead master that could not be recovered raised IncorrectState
C8_Witness ==
    /\ res.st = "raise" /\ res.op = "initialize"
    /\ res.exc.cls = "IncorrectState"

(***************************************************************************)
(* Properties of the dialog.                                               *)
(***************************************************************************)
DlgLog == d.s.log

IsPasswordWrite(e) == e.ev = "write" /\ d.shell_pass # "" /\ e.data = <<d.shell_pass, "\n">>
IsPassphraseWrite(e) ==
    e.ev = "write" /\ \E c \in DOMAIN d.cert_pass : e.data = <<d.cert_pass[c], "\n">>
IsYesWrite(e) == e.ev = "write" /\ e.data = <<"yes", "\n">>
IsScriptWrite(e) ==
    e.ev = "write" /\ e.data = CopyScript("ssh", d.opk, "src", "tgt", "") \o <<"\n">>

\* C9: every write to the PTY comes directly after the matching prompt: the password
\* after a match of index 0, a passphrase after index 1, yes after index 2, one write
\* for each such match; the copy script after the dialog has ended on index 3.
C9_WritesFollowPrompts ==
    /\ \A i \in DOMAIN DlgLog :
          DlgLog[i].ev = "write" =>
             /\ i > 1 /\ DlgLog[i - 1].ev = "find"
             /\ IsPasswordWrite(DlgLog[i]) <=> DlgLog[i - 1].n = 0
             /\ IsPassphraseWrite(DlgLog[i]) <=> DlgLog[i - 1].n = 1
             /\ IsYesWrite(DlgLog[i]) <=> DlgLog[i - 1].n = 2
             /\ IsScriptWrite(DlgLog[i]) <=> DlgLog[i - 1].n = 3
             /\ DlgLog[i - 1].n = 3 =>
                   d.s.out = "ok" /\ d.opk \in {"run_copy_to", "run_copy_from"} /\ i = Len(DlgLog)
    /\ \A i \in DOMAIN DlgLog :
          (i < Len(DlgLog) /\ DlgLog[i].ev = "find" /\ DlgLog[i].n \in {0, 1, 2, 3}) =>
             DlgLog[i + 1].ev = "write"

\* password, yes and the copy script have been written, each after its prompt
C9_Witness ==
    /\ Len(DlgLog) = 6
    /\ DlgLog[1] = EvFind(0) /\ IsPasswordWrite(DlgLog[2])
    /\ DlgLog[3] = EvFind(2) /\ IsYesWrite(DlgLog[4])
    /\ DlgLog[5] = EvFind(3) /\ IsScriptWrite(DlgLog[6])

\* C10: when the password prompt (index 0) is matched and the profile has no
\* password, nothing is written for it, no further find is made, and the dialog ends
\* raising AuthenticationFailed, wherever in the find results the prompt appears.
C10_UnknownPasswordFails ==
    \A i \in DOMAIN DlgLog :
        (d.shell_pass = "" /\ DlgLog[i] = EvFind(0)) =>
            /\ i = Len(DlgLog)
            /\ d.s.pc \in {"l216", "l224", "done"}
            /\ d.s.pc = "done" => d.s.out = "raise" /\ d.s.exc.cls = "AuthenticationFailed"

\* the password prompt came after a host key prompt, and the dialog has failed on it
C10_Witness ==
    /\ d.shell_pass = "" /\ d.s.pc = "done"
    /\ Len(DlgLog) = 3 /\ DlgLog[1] = EvFind(2) /\ DlgLog[3] = EvFind(0)
    /\ d.s.exc.cls = "AuthenticationFailed"


\* the positions of the quotes in the text m
QuotesIn(m) == {i \in 1..Len(m) : m[i] = Quote}

\* the text between the first two quotes of m
NameIn(m) ==
    LET q1 == CHOOSE i \in QuotesIn(m) : \A j \in QuotesIn(m) : i <= j
        q2 == CHOOSE i \in QuotesIn(m) \ {q1} : \A j \in QuotesIn(m) \ {q1} : i <= j
    IN  [i \in 1..(q2 - q1 - 1) |-> m[q1 + i]]

\* C11: on a match of index 1 the certificate name is the text between the first two
\* quotes of the match. If there are no two quotes, or cert_pass has no entry for the
\* name, the dialog raises AuthenticationFailed and writes nothing; otherwise it writes
\* the passphrase of that certificate, nothing else, and calls find again.
C11_PassphraseOfNamedCert ==
    [][(d.s.pc = "l235" /\ d.s.n = 1 /\ d' # d) =>
         LET m == d.s.match
             k == Len(d.s.log)
         IN  IF Cardinality(QuotesIn(m)) < 2 \/ NameIn(m) \notin DOMAIN d.cert_pass
             THEN /\ d'.s.pc = "done" /\ d'.s.out = "raise"
                  /\ d'.s.exc.cls = "AuthenticationFailed"
                  /\ d'.s.log = d.s.log
             ELSE /\ Len(d'.s.log) \in {k + 1, k + 2}
                  /\ SubSeq(d'.s.log, 1, k) = d.s.log
                  /\ d'.s.log[k + 1] = EvWrite(<<d.cert_pass[NameIn(m)], "\n">>)
                  /\ Len(d'.s.log) = k + 2 => d'.s.log[k + 2].ev = "find" /\ d'.s.pc = "l216"
                  /\ Len(d'.s.log) = k + 1 => d'.s.out = "raise"]_vars

\* with the passphrases of two certificates and a password at hand, the passphrase of
\* the second certificate was written after its prompt, and that of the first after a
\* prompt whose text has a third quote
C11_Witness ==
    /\ d.shell_pass = "pw" /\ DOMAIN d.cert_pass = {CertK1, CertK2}
    /\ Len(DlgLog) >= 4
    /\ DlgLog[1] = EvFind(1) /\ DlgLog[2] = EvWrite(<<"qq", "\n">>)
    /\ DlgLog[3] = EvFind(1) /\ DlgLog[4] = EvWrite(<<"pp", "\n">>)
    /\ d.s.match = TextThreeQuotes


(***************************************************************************)
(* Properties of the error translator.                                     *)
(***************************************************************************)
\* the classification table: the word looked for in the lower-case message and the
\* class it gives, in the order of the tests
TrRules ==
    <<[kw |-> KwAuth, cls |-> "AuthorizationFailed"],
      [kw |-> KwPass, cls |-> "AuthenticationFailed"],
      [kw |-> KwExchange, cls |-> "AuthenticationFailed"],
      [kw |-> KwDenied, cls |-> "PermissionDenied"],
      [kw |-> KwShared, cls |-> "NoSuccess"],
      [kw |-> KwPtyAlloc, cls |-> "NoSuccess"]>>

\* the rules whose word is in the lower-case form of msg
TrMatching(msg) == {i \in DOMAIN TrRules : Contains(Lower(msg), TrRules[i].kw)}

\* C12: the translator returns an exception that is no saga exception, or a saga
\* exception other than NoSuccess, unchanged; a NoSuccess gets the class of the first
\* rule of the table whose word its lower-case message contains and keeps its text,
\* and is unchanged when no rule matches; a message with both authentication and
\* password gives AuthorizationFailed.
C12_TranslatorClassification ==
    d.done =>
        /\ d.in.cls # "NoSuccess" => d.out = d.in
        /\ (d.in.cls = "NoSuccess" /\ TrMatching(d.in.msg) = {}) => d.out = d.in
        /\ (d.in.cls = "NoSuccess" /\ TrMatching(d.in.msg) # {}) =>
              LET first == CHOOSE i \in TrMatching(d.in.msg) :
                              \A j \in TrMatching(d.in.msg) : i <= j
              IN  /\ d.out.cls = TrRules[first].cls
                  /\ Contains(d.out.msg, d.in.msg)
        /\ (d.in.cls = "NoSuccess" /\ Contains(Lower(d.in.msg), Lower(WAuthentication))
                                   /\ Contains(Lower(d.in.msg), WPassword)) =>
              d.out.cls = "AuthorizationFailed"

\* a NoSuccess whose message has password before authentication was translated
C12_Witness ==
    /\ d.done
    /\ d.in = Exc("NoSuccess", Join(<<WPassword, WAuthentication>>))
    /\ d.out.cls = "AuthorizationFailed"


\* C13: every error initialize, run_shell, run_copy_to or run_copy_from raises from
\* spawning a PTY or from the dialog has gone through the translator: no such error
\* reaches the caller as a NoSuccess the translator would have given another class or
\* another text.
C13_ErrorsTranslated ==
    (res.st = "raise" /\ res.origin \in {"spawn", "dialog"}) =>
        \/ res.origin = "dialog"
        \/ TranslateException(res.exc) = res.exc


(***************************************************************************)
(* Properties of the copy operations.                                      *)
(***************************************************************************)
\* the last characters of s, TailLen of them at most
TailOf(s) ==
    LET k == IF Len(s) < TailLen THEN Len(s) ELSE TailLen
    IN  [i \in 1..k |-> s[Len(s) - k + i]]

\* C14: run_copy_to and run_copy_from, once the dialog of the slave has succeeded,
\* wait for the slave and raise NoSuccess exactly when its exit code is not 0, with
\* the message file copy failed: followed by the last 256 characters of the slave's
\* output (all of it when it is shorter); with exit code 0 they return.
C14_CopyFailsOnExitCode ==
    [][\A t \in Threads :
         (pc[t] = "l318" /\ pc'[t] = "idle") =>
            /\ op[t] \in {"run_copy_to", "run_copy_from"}
            /\ ptys[cur[t]].dlg = "ok"
            /\ res'.st = "raise" <=> res'.exit_code # 0
            /\ res'.st = "ret" <=> res'.exit_code = 0
            /\ res'.st = "raise" =>
                  res'.exc = Exc("NoSuccess", MsgCopyFailed \o TailOf(res'.cache))]_vars

\* a copy failed after more than 256 characters of output
C14_Witness ==
    /\ res.st = "raise" /\ res.op \in {"run_copy_to", "run_copy_from"}
    /\ res.exit_code = 1 /\ Len(res.cache) > TailLen
    /\ Len(res.exc.msg) = TailLen + 1

\* thread t takes the step
Moved(t) == pc'[t] # pc[t] \/ (res'.st # "none" /\ res'.t = t)

\* C15: no step of run_shell, run_copy_to or run_copy_from, whether the call succeeds
\* or fails, changes the registry, the entries initialize has returned or the master
\* PTYs, and no slave PTY is in the registry: after a failed copy the master entry is
\* still registered as it was.
C15_RunLeavesRegistry ==
    [][\A t \in Threads :
         (Moved(t) /\ (op[t] \in RunOps \/ op'[t] \in RunOps \/ res'.op \in RunOps)) =>
            /\ registry' = registry
            /\ returned' = returned
            /\ \A e \in Entries(registry') :
                  /\ ptys'[e.info.pty].kind = "master"
                  /\ ptys'[e.info.pty] = ptys[e.info.pty]]_vars

\* a copy has failed and the master entry it was given is still the registered one
C15_Witness ==
    /\ res.st = "raise" /\ res.op \in {"run_copy_to", "run_copy_from"}
    /\ res.origin = "none"
    /\ RegHas(registry, KeyOf(res.local))
    /\ RegEntry(registry, KeyOf(res.local)) = res.local
    /\ ptys[res.local.pty].kind = "master"


(***************************************************************************)
(* Properties of the registry key.                                         *)
(***************************************************************************)
Ports == {22, 2222}

\* the profile inf asks for port p on the command line of its shell
PortFlag(inf, p) == Contains(inf.ssh_args, <<"-p", PortStr(p)>>)

\* C16: masters are unique per host, user and port: a call of initialize for a
\* secure-shell URL is served by a master made for the port of its URL, never by the
\* master of a URL with the same host and user and another port.
C16_MasterPerPort ==
    (res.st = "ret" /\ res.op = "initialize") =>
        \A p \in Ports : PortFlag(res.local, p) <=> PortFlag(res.info, p)

\* C17: the gsi schemas have a transport type of their own and the registry is keyed
\* by it: a call of initialize with a gsi schema is never served by a master made for
\* a secure-shell schema of the same host and user, nor the other way round.
C17_MasterPerFamily ==
    (res.st = "ret" /\ res.op = "initialize") =>
        /\ res.local.schema \in SchemasGsi <=> res.info.schema \in SchemasGsi
        /\ res.local.schema \in SchemasGsi => res.local.type # "ssh"


(***************************************************************************)
(* Properties of the profile builder.                                      *)
(***************************************************************************)
\* the builder has returned a profile
Built == d.done /\ d.out.exc = NoExc

\* the user ids and passwords the contexts of the session give, in their order
CtxUsers(session) ==
    {session[i].attrs["user_id"] : i \in {j \in DOMAIN session : AttrSet(session[j], "user_id")}}
CtxPasswords(session) ==
    {session[i].attrs["user_pass"] :
        i \in {j \in DOMAIN session : /\ Lower(session[j].type) = TypeUserPass
                                        /\ AttrSet(session[j], "user_pass")}}

\* C18: for every URL and every session, the user of the profile is the URL's user
\* name when the URL has one and its password is the URL's password when the URL has
\* one, whatever the contexts give; values of the contexts are used only where the
\* URL gives none.
C18_UrlOverridesContexts ==
    Built =>
        /\ d.url.username # "" => d.out.info.user = d.url.username
        /\ d.url.password # "" => d.out.info.pass = d.url.password
        /\ d.url.username = "" => d.out.info.user \in CtxUsers(d.session) \cup {OsUser}
        /\ d.url.password = "" => d.out.info.pass \in CtxPasswords(d.session) \cup {""}

\* C19: for every profile of a secure-shell family, ctrl holds the process id and the
\* user of the profile, also when the user is the OS account taken for want of any
\* other, and m_flags and s_flags name that ctrl.
C19_ControlPathHasUser ==
    (Built /\ d.out.info.type = "ssh") =>
        /\ Contains(d.out.info.ctrl, <<Pid>>)
        /\ Contains(d.out.info.ctrl, <<d.out.info.user>>)
        /\ Contains(d.out.info.m_flags, d.out.info.ctrl)
        /\ Contains(d.out.info.s_flags, d.out.info.ctrl)


\* C20: a call of initialize with a schema that is none of the known ones, or with a
\* local schema (in any letter case) and a host that is not the local machine, raises
\* BadParameter at its first step: only a call with a known schema, and a local host
\* when the schema is local, goes on; no PTY is spawned and the registry is unchanged.
C20_BadParameterBeforeSpawn ==
    [][\A t \in Threads :
         (pc[t] = "idle" /\ Moved(t) /\ (op'[t] = "initialize" \/ res'.op = "initialize")) =>
            /\ registry' = registry
            /\ ptys' = ptys
            /\ pc'[t] \in {"idle", "l162"}
            /\ pc'[t] = "idle" => res'.st = "raise" /\ res'.exc.cls = "BadParameter"
            /\ pc'[t] = "l162" =>
                  /\ info'[t].schema \in SchemasSh \cup SchemasSsh \cup SchemasGsi
                  /\ info'[t].schema \in SchemasSh =>
                        info'[t].host_str[Len(info'[t].host_str)] \in LocalHosts]_vars

\* with a master registered, a call with a local schema in mixed case and a host that
\* is not local has raised BadParameter
C20_Witness ==
    /\ res.st = "raise" /\ res.op = "initialize"
    /\ res.exc.cls = "BadParameter"
    /\ Contains(res.exc.msg, <<"F", "o", "r", "k">>)
    /\ Entries(registry) # {}
    /\ \A t \in Threads : pc[t] = "idle"

-----------------------------------------------------------------------------
\* The master behind a slave

\* C21: when run_shell, run_copy_to or run_copy_from spawns a slave PTY for an entry,
\* the master PTY of that entry is alive at that moment: a master that was reclaimed
\* since initialize returned the entry has been revived by the call before the slave
\* is spawned (a call that reports the lost master instead spawns no slave).
C21_SlaveOnLiveMaster ==
    [][\A t \in Threads :
         (pc[t] = "idle" /\ pc'[t] = "slave_dialog") =>
            /\ op'[t] \in RunOps
            /\ ptys'[cur'[t]].kind = "slave"
            /\ ptys'[info'[t].pty].alive]_vars

-----------------------------------------------------------------------------
\* The end of the dialog

\* the places of the log where find() matched the shell prompt
ShellAt == {i \in DOMAIN DlgLog : DlgLog[i] = EvFind(3)}

\* what the dialog raises when find() itself raised
PtyRaises == {TranslateException(f.exc) : f \in {x \in FindResults : x.exc # NoExc}}

-----------------------------------------------------------------------------
\* The order of the steps of a miss

\* C23: initialize installs a new entry only for a master PTY that is alive when it is
\* installed, its dialog having succeeded: the liveness of the master is verified
\* after the dialog and before the registration.
C23_InstalledMasterVerifiedAlive ==
    [][\A t \in Threads :
         (pc[t] = "l181" /\ pc'[t] = "idle") =>
            /\ RegHas(registry', KeyOf(info[t]))
            /\ RegEntry(registry', KeyOf(info[t])).pty = cur[t]
            /\ ptys'[cur[t]].dlg = "ok"
            /\ ptys'[cur[t]].alive]_vars

-----------------------------------------------------------------------------
\* The registry only grows

\* C24: with one call at a time, no step takes an entry out of the registry or puts
\* another entry in its place; an initialize whose key is registered goes to the hit
\* branch, and the hit branch leaves the registry as it is whether it returns the
\* entry or raises IncorrectState because the master could not be recovered, so that
\* the dead entry stays registered for the calls that follow.
C24_RegistryOnlyGrows ==
    [][/\ Entries(registry) \subseteq Entries(registry')
       /\ \A t \in Threads :
             /\ (pc[t] = "l164" /\ Moved(t) /\ RegHas(registry, KeyOf(info[t]))) =>
                   pc'[t] = "l187"
             /\ (pc[t] = "l187" /\ Moved(t)) =>
                   /\ registry' = registry
                   /\ res'.st \in {"ret", "raise"}
                   /\ res'.st = "ret" => res'.info = RegEntry(registry, KeyOf(info[t]))
                   /\ res'.st = "raise" =>
                         /\ res'.exc.cls = "IncorrectState"
                         /\ ~ptys'[RegEntry(registry', KeyOf(info[t])).pty].alive]_vars

\* initialize has raised IncorrectState for a key whose master could not be recovered,
\* and the entry with the dead master is still registered
C24_Witness ==
    /\ res.st = "raise" /\ res.op = "initialize"
    /\ res.exc.cls = "IncorrectState"
    /\ \E e \in Entries(registry) :
          /\ ~ptys[e.info.pty].alive
          /\ res.exc.msg = <<"Lost shell connection to ">> \o e.info.host_str
    /\ \A t \in Threads : pc[t] = "idle"


====
